---------------------------- MODULE Spec2Model ----------------------------
(***************************************************************************)
(* The per-device command interpreter readcmd of the ckb-next daemon       *)
(* (command.c): the tokenizer, the notification-channel selector, the      *)
(* firmware and activation gates, the dispatcher, the retry-with-reset     *)
(* harness and the post-line flush with its RGB rate limiter.              *)
(*                                                                         *)
(* A word of a command line is a tuple of one-character strings, so that   *)
(* strcmp and the sscanf conversions are computed on the characters.       *)
(***************************************************************************)
EXTENDS Integers, Sequences, FiniteSets, TLC

(***************************************************************************)
(* Bounds of the model.  MODE_COUNT, OUTFIFO_MAX and N_KEYS_EXTENDED are   *)
(* platform constants set by headers outside this code; the model keeps    *)
(* them small.                                                             *)
(***************************************************************************)
MODE_COUNT == 2
OUTFIFO_MAX == 2
N_KEYS_EXTENDED == 2
MacroCount == 1

(***************************************************************************)
(* Program constants.                                                      *)
(***************************************************************************)
HERTZ_LIM == 16528925
NSEC_PER_SEC == 1000000000
MinDelay == 2
MaxDelay == 10
KeynameMax == 10

NONE == 0
CMD_FIRST == 1
cmd_strings ==
    << <<"d","e","l","a","y">>,
       <<"m","o","d","e">>,
       <<"s","w","i","t","c","h">>,
       <<"l","a","y","o","u","t">>,
       <<"a","c","c","e","l">>,
       <<"s","c","r","o","l","l","s","p","e","e","d">>,
       <<"n","o","t","i","f","y","o","n">>,
       <<"n","o","t","i","f","y","o","f","f">>,
       <<"f","p","s">>,
       <<"d","i","t","h","e","r">>,
       <<"h","w","l","o","a","d">>,
       <<"h","w","s","a","v","e">>,
       <<"f","w","u","p","d","a","t","e">>,
       <<"p","o","l","l","r","a","t","e">>,
       <<"a","c","t","i","v","e">>,
       <<"i","d","l","e">>,
       <<"e","r","a","s","e">>,
       <<"e","r","a","s","e","p","r","o","f","i","l","e">>,
       <<"n","a","m","e">>,
       <<"p","r","o","f","i","l","e","n","a","m","e">>,
       <<"i","d">>,
       <<"p","r","o","f","i","l","e","i","d">>,
       <<"r","g","b">>,
       <<"h","w","a","n","i","m">>,
       <<"i","o","f","f">>,
       <<"i","o","n">>,
       <<"i","a","u","t","o">>,
       <<"b","i","n","d">>,
       <<"u","n","b","i","n","d">>,
       <<"r","e","b","i","n","d">>,
       <<"m","a","c","r","o">>,
       <<"d","p","i">>,
       <<"d","p","i","s","e","l">>,
       <<"l","i","f","t">>,
       <<"s","n","a","p">>,
       <<"n","o","t","i","f","y">>,
       <<"i","n","o","t","i","f","y">>,
       <<"g","e","t">>,
       <<"r","e","s","e","t">> >>

DELAY == 1
MODE == 2
SWITCH == 3
LAYOUT == 4
ACCEL == 5
SCROLLSPEED == 6
NOTIFYON == 7
NOTIFYOFF == 8
FPS == 9
DITHER == 10
HWLOAD == 11
HWSAVE == 12
FWUPDATE == 13
POLLRATE == 14
ACTIVE == 15
IDLE == 16
ERASE == 17
ERASEPROFILE == 18
NAME == 19
PROFILENAME == 20
ID == 21
PROFILEID == 22
RGB == 23
HWANIM == 24
IOFF == 25
ION == 26
IAUTO == 27
BIND == 28
UNBIND == 29
REBIND == 30
MACRO == 31
DPI == 32
DPISEL == 33
LIFT == 34
SNAP == 35
NOTIFY == 36
INOTIFY == 37
GET == 38
RESET == 39

(***************************************************************************)
(* Characters and the sscanf conversions readcmd uses.  A conversion       *)
(* returns what sscanf returns (the number of conversions made, or -1 for  *)
(* EOF when the input ends before the first conversion) with the value     *)
(* stored.  An unsigned 32-bit value is kept as its bit pattern read as a  *)
(* signed number: a negative number n stands for 2^32 + n.                 *)
(***************************************************************************)
EOF_RET == 0 - 1

DecChars == <<"0","1","2","3","4","5","6","7","8","9">>
HexLower == <<"a","b","c","d","e","f">>
HexUpper == <<"A","B","C","D","E","F">>

IsDigit(c) == \E v \in 1..10 : DecChars[v] = c
DigitVal(c) == (CHOOSE v \in 1..10 : DecChars[v] = c) - 1
IsXDigit(c) == IsDigit(c) \/ \E v \in 1..6 : HexLower[v] = c \/ HexUpper[v] = c
XDigitVal(c) ==
    IF IsDigit(c) THEN DigitVal(c)
    ELSE 9 + (CHOOSE v \in 1..6 : HexLower[v] = c \/ HexUpper[v] = c)
IsSign(c) == c \in {"-", "+"}

strcmp(a, b) == IF a = b THEN 0 ELSE 1

\* The number of decimal digits of s from position i on.
RECURSIVE DigitRun(_, _)
DigitRun(s, i) ==
    IF i <= Len(s) /\ IsDigit(s[i]) THEN 1 + DigitRun(s, i + 1) ELSE 0

\* The value of the n decimal digits of s that start at position i.
RECURSIVE DecValue(_, _, _)
DecValue(s, i, n) ==
    IF n = 0 THEN 0 ELSE DecValue(s, i, n - 1) * 10 + DigitVal(s[i + n - 1])

\* The number of hexadecimal digits of s from position i on, at most w.
RECURSIVE XDigitRun(_, _, _)
XDigitRun(s, i, w) ==
    IF w > 0 /\ i <= Len(s) /\ IsXDigit(s[i])
    THEN 1 + XDigitRun(s, i + 1, w - 1) ELSE 0

RECURSIVE HexValue(_, _, _)
HexValue(s, i, n) ==
    IF n = 0 THEN 0 ELSE HexValue(s, i, n - 1) * 16 + XDigitVal(s[i + n - 1])

\* The number of characters of s from position i on that are not in stops,
\* at most w.
RECURSIVE Span(_, _, _, _)
Span(s, i, stops, w) ==
    IF w > 0 /\ i <= Len(s) /\ s[i] \notin stops
    THEN 1 + Span(s, i + 1, stops, w - 1) ELSE 0

\* One %d or %u conversion of s at position i: an optional sign, then digits.
scan_d(s, i) ==
    LET sign == i <= Len(s) /\ IsSign(s[i])
        j    == IF sign THEN i + 1 ELSE i
        n    == DigitRun(s, j)
        v    == DecValue(s, j, n)
    IN  [ret  |-> IF i > Len(s) THEN EOF_RET ELSE IF n > 0 THEN 1 ELSE 0,
         val  |-> IF sign /\ s[i] = "-" THEN 0 - v ELSE v,
         next |-> j + n]

\* One %x conversion of width w of s at position i: an optional sign, which
\* counts in the width, then hexadecimal digits.
scan_x(s, i, w) ==
    LET sign == w > 0 /\ i <= Len(s) /\ IsSign(s[i])
        j    == IF sign THEN i + 1 ELSE i
        n    == XDigitRun(s, j, IF sign THEN w - 1 ELSE w)
        v    == HexValue(s, j, n)
    IN  [ret  |-> IF i > Len(s) THEN EOF_RET ELSE IF n > 0 THEN 1 ELSE 0,
         val  |-> IF sign /\ s[i] = "-" THEN 0 - v ELSE v,
         next |-> j + n]

\* sscanf(word, "%d", &v) and sscanf(word, "%u", &v)
sscanf_d(w) == scan_d(w, 1)
sscanf_u(w) == scan_d(w, 1)

\* sscanf(word, "@%d", &v)
sscanf_at_d(w) ==
    IF Len(w) = 0 THEN [ret |-> EOF_RET, val |-> 0, next |-> 1]
    ELSE IF w[1] # "@" THEN [ret |-> 0, val |-> 0, next |-> 1]
    ELSE scan_d(w, 2)

\* sscanf(keyname, "#%u", &v)
sscanf_hash_u(w) ==
    IF Len(w) = 0 THEN [ret |-> EOF_RET, val |-> 0, next |-> 1]
    ELSE IF w[1] # "#" THEN [ret |-> 0, val |-> 0, next |-> 1]
    ELSE scan_d(w, 2)

\* sscanf(keyname, "#x%x", &v)
sscanf_hash_x(w) ==
    IF Len(w) = 0 THEN [ret |-> EOF_RET, val |-> 0, next |-> 1]
    ELSE IF w[1] # "#" THEN [ret |-> 0, val |-> 0, next |-> 1]
    ELSE IF Len(w) = 1 THEN [ret |-> EOF_RET, val |-> 0, next |-> 2]
    ELSE IF w[2] # "x" THEN [ret |-> 0, val |-> 0, next |-> 2]
    ELSE scan_x(w, 3, Len(w))

\* sscanf(word, "%02x%02x%02x", &r, &g, &b): the number of conversions made.
sscanf_rgb(w) ==
    LET r == scan_x(w, 1, 2)
        g == scan_x(w, r.next, 2)
        b == scan_x(w, g.next, 2)
    IN  IF r.ret # 1 THEN r.ret
        ELSE IF g.ret # 1 THEN 1
        ELSE IF b.ret # 1 THEN 2
        ELSE 3

\* int left = -1; sscanf(word, "%*[^:]%n", &left): %n is reached only when
\* the scanset matched at least one character.
colon_left(w) ==
    LET n == Span(w, 1, {":"}, Len(w))
    IN  IF n = 0 THEN 0 - 1 ELSE n

POLLRATE_8MS == 0
POLLRATE_4MS == 1
POLLRATE_2MS == 2
POLLRATE_1MS == 3
POLLRATE_05MS == 4
POLLRATE_025MS == 5
POLLRATE_01MS == 6

MaxProfiles == 2
ProfileIds == 1..MaxProfiles
Modes == 1..MODE_COUNT
Keys == 0..(N_KEYS_EXTENDED - 1)

FEAT_LMASK == {"FEAT_ANSI", "FEAT_ISO"}

VARIABLES
    \* usbdevice* kb
    active,           \* kb->active
    needs_fw_update,  \* NEEDS_FW_UPDATE(kb)
    usbdelay,         \* kb->usbdelay
    dither,           \* kb->dither
    features,         \* kb->features, the set of the feature bits that are set
    hw,               \* what IS_MOUSE_DEV, IS_FULLRANGE and kb->maxpollrate give
    OS_MAC,           \* whether the build defines OS_MAC
    notifynodes,      \* the notification nodes that exist
    last_rgb,         \* kb->last_rgb, a struct timespec
    kb_profile,       \* kb->profile, the address of the device's profile
    currentmode,      \* kb->profile->currentmode, as an index 1..MODE_COUNT
    macros,           \* mode -> macro -> bind.macros[i].triggered
    forceupdate,      \* mode -> light.forceupdate
    imutex,           \* the holder of imutex(kb)
    clock,            \* CLOCK_MONOTONIC
    \* the frame of readcmd
    pc, profile, mode, notifynumber, command, word, delay, hcall, retval,
    macro_i,
    \* the calls the last step of readcmd made, in order
    calls,
    \* whether the line read so far holds the verb rgb
    seen_rgb,
    \* the input thread
    ipc

vars == <<active, needs_fw_update, usbdelay, dither, features, hw, OS_MAC,
          notifynodes, last_rgb, kb_profile, currentmode, macros, forceupdate,
          imutex, clock, pc, profile, mode, notifynumber, command, word,
          delay, hcall, retval, macro_i, calls, seen_rgb, ipc>>

NULL == <<>>
NoMode == [p |-> 0, i |-> 0]

\* One call of a device operation: the function, the verb that indexes
\* do_cmd, do_io or do_macro, the mode and channel arguments, the key (or
\* flag, rate, index) argument, the word arguments and the value returned.
Call(fn, cmd, m, chan, key, arg, right, ret) ==
    [fn |-> fn, cmd |-> cmd, mode |-> m, chan |-> chan, key |-> key,
     arg |-> arg, right |-> right, ret |-> ret]

NoCall == Call("none", NONE, NoMode, 0, 0, NULL, NULL, 0)

\* The state a word of the line acts on, as one record.
State ==
    [active |-> active, needs_fw_update |-> needs_fw_update,
     usbdelay |-> usbdelay, dither |-> dither, features |-> features,
     hw |-> hw, OS_MAC |-> OS_MAC, notifynodes |-> notifynodes,
     kb_profile |-> kb_profile, currentmode |-> currentmode,
     macros |-> macros, forceupdate |-> forceupdate,
     pc |-> pc, profile |-> profile, mode |-> mode,
     notifynumber |-> notifynumber, command |-> command, word |-> word,
     delay |-> delay,
     hcall |-> hcall, retval |-> retval, calls |-> calls,
     seen_rgb |-> seen_rgb]

HAS_FEATURES(S, feat) == feat \in S.features

\* profile->currentmode, read through readcmd's local profile pointer
ProfileCurrentMode(S) == [p |-> S.profile, i |-> S.currentmode]

\* INDEX_OF(mode, profile->mode), zero-based
INDEX_OF(m) == m.i - 1

Log(S, c) == [S EXCEPT !.calls = Append(S.calls, c)]

(***************************************************************************)
(* The collaborators of readcmd: the device operations of the vtable, the  *)
(* notification nodes and the keymap.  readcmd uses their return codes;    *)
(* the effects below are those the specification gives them.               *)
(***************************************************************************)
FreshMacros == [m \in Modes |-> [k \in 1..MacroCount |-> FALSE]]
FreshForce == [m \in Modes |-> FALSE]

\* mknotifynode(kb, notify)
mknotifynode(S, notify) ==
    LET T == Log(S, Call("mknotifynode", NONE, NoMode, 0, notify, NULL, NULL, 0))
    IN  IF notify >= 0 /\ notify < OUTFIFO_MAX
        THEN [T EXCEPT !.notifynodes = @ \cup {notify}]
        ELSE T

\* rmnotifynode(kb, notify)
rmnotifynode(S, notify) ==
    LET T == Log(S, Call("rmnotifynode", NONE, NoMode, 0, notify, NULL, NULL, 0))
    IN  IF notify >= 0 /\ notify < OUTFIFO_MAX
        THEN [T EXCEPT !.notifynodes = @ \ {notify}]
        ELSE T

\* vtable.eraseprofile: the device gets a new profile, at an address newp
\* (which may be the address just freed), with mode[0] current.
vt_eraseprofile(S, newp) ==
    [S EXCEPT !.kb_profile = newp, !.currentmode = 1,
              !.macros = FreshMacros, !.forceupdate = FreshForce]

\* vtable.fwupdate: a successful update may leave valid firmware.
vt_fwupdate(S, ret, fixed) ==
    IF ret = 0 /\ fixed THEN [S EXCEPT !.needs_fw_update = FALSE] ELSE S

\* kb->keymap[i].name: the first two keys are named, the others are not.
KeyName(i) ==
    IF i = 0 THEN <<"a">> ELSE IF i = 1 THEN <<"b">> ELSE NULL

(***************************************************************************)
(* readcmd, one word of the line at a time.                                *)
(***************************************************************************)

\* for(i...) if(!strcmp(word, cmd_strings[i])): the one-based index of the
\* verb that word is, or 0.
MatchIndex(w) ==
    IF \E i \in 1..Len(cmd_strings) : strcmp(w, cmd_strings[i]) = 0
    THEN CHOOSE i \in 1..Len(cmd_strings) : strcmp(w, cmd_strings[i]) = 0
    ELSE 0

\* The word of the verb c
Verb(c) == cmd_strings[c - CMD_FIRST + 1]

\* #ifndef OS_MAC: layout and mouse acceleration are ignored
Demote(os_mac, c) ==
    IF ~os_mac /\ c \in {LAYOUT, ACCEL, SCROLLSPEED} THEN NONE ELSE c

\* "a few are actions in and of themselves"
IsActionVerb(c) ==
    c \in {SWITCH, HWLOAD, HWSAVE, ACTIVE, IDLE, ERASE, ERASEPROFILE}

\* The bound of the channel off by one
ChannelOk_Le(newnotify) == newnotify <= OUTFIFO_MAX

\* newnotify < OUTFIFO_MAX
ChannelOk(newnotify) == newnotify < OUTFIFO_MAX

\* Unrecognized commands, and the commands of a feature the device lacks.
Rejected(S) ==
    \/ S.command = NONE
    \/ /\ ~HAS_FEATURES(S, "FEAT_BIND")
       /\ S.command \in {BIND, UNBIND, REBIND, MACRO, DELAY}
    \/ /\ ~HAS_FEATURES(S, "FEAT_NOTIFY")
       /\ S.command = NOTIFY

\* The firmware gate left out: nothing is rejected.
FwRejects_Off(S) == FALSE

\* "Reject anything not related to fwupdate if device has a bricked FW"
FwRejects(S) ==
    /\ S.needs_fw_update
    /\ S.command \notin {FWUPDATE, NOTIFYON, NOTIFYOFF, RESET}

\* newmode > 0 && newmode <= MODE_COUNT
ModeOk(newmode) == newmode > 0 /\ newmode <= MODE_COUNT

\* The delay without the upper clamp
FpsDelay_NoClamp(framerate, per_frame) ==
    LET q == IF framerate < 0 THEN 0 ELSE 1000 \div framerate
        d == q \div per_frame
    IN  IF d < MinDelay THEN MinDelay ELSE d

\* uint delay = 1000 / framerate / per_frame, clamped to 2..10.  framerate
\* is the bit pattern of an unsigned number that is not 0.
FpsDelay(framerate, per_frame) ==
    LET q == IF framerate < 0 THEN 0 ELSE 1000 \div framerate
        d == q \div per_frame
    IN  IF d < MinDelay THEN MinDelay
        ELSE IF d > MaxDelay THEN MaxDelay
        ELSE d

per_frame(S) == IF S.hw.mouse THEN 2 ELSE IF S.hw.fullrange THEN 14 ELSE 5

\* The mode switch without the lock
SwitchSteps_NoLock == <<"sw_clear", "sw_set", "sw_index">>

\* case SWITCH: the steps of a mode switch, in program order.
SwitchSteps == <<"sw_lock", "sw_clear", "sw_set", "sw_unlock", "sw_index">>

\* The step after step p of the mode switch; the next word after the last.
SwNext(p) ==
    LET k == CHOOSE j \in 1..Len(SwitchSteps) : SwitchSteps[j] = p
    IN  IF k < Len(SwitchSteps) THEN SwitchSteps[k + 1] ELSE "words"

\* TRY_WITH_RESET(action): readcmd goes on at the first attempt of the call.
Harness(S, c) == [S EXCEPT !.pc = "try", !.hcall = c]

\* The pointers kept as they were after eraseprofile
Rebind_Stale(S) == S

\* profile = kb->profile; mode = profile->currentmode;
Rebind(S) ==
    [S EXCEPT !.profile = S.kb_profile,
              !.mode = [p |-> S.kb_profile, i |-> S.currentmode]]

\* return 0: the frame of readcmd is gone.
Return0(S) ==
    [S EXCEPT !.pc = "idle", !.retval = 0, !.hcall = NoCall, !.profile = 0,
              !.mode = NoMode, !.notifynumber = 0, !.command = NONE,
              !.word = NULL, !.seen_rgb = FALSE]

\* return 1: the caller drops the device.
Return1(S) == [S EXCEPT !.pc = "lost", !.retval = 1]

\* if(vt->fwupdate(...)) return 1, with the failure passed over
FwupdateResult_Ignore(S, ret) == S

\* if(vt->fwupdate(...)) return 1: "there's no try again on failure"
FwupdateResult(S, ret) == IF ret # 0 THEN Return1(S) ELSE S

\* The calls that one key name of a key list makes.  uninit is the value
\* keycode holds when sscanf returned EOF and stored nothing.
KeyCalls(S, keyname, right, uninit) ==
    LET DoCmd(k) == Call("do_cmd", S.command, S.mode, S.notifynumber, k,
                         right, NULL, 0)
        a   == sscanf_hash_u(keyname)
        kc1 == IF a.ret = 1 THEN a.val ELSE uninit
        b   == sscanf_hash_x(keyname)
        kc2 == IF b.ret = 1 THEN b.val ELSE kc1
        InRange(k) == k >= 0 /\ k < N_KEYS_EXTENDED
    IN  IF strcmp(keyname, <<"a","l","l">>) = 0
        THEN [i \in 1..N_KEYS_EXTENDED |-> DoCmd(i - 1)]
        ELSE IF a.ret # 0 /\ InRange(kc1) THEN <<DoCmd(kc1)>>
        ELSE IF b.ret # 0 /\ InRange(kc2) THEN <<DoCmd(kc2)>>
        ELSE IF \E i \in Keys : KeyName(i) # NULL /\ strcmp(keyname, KeyName(i)) = 0
        THEN <<DoCmd(CHOOSE i \in Keys :
                       /\ KeyName(i) # NULL /\ strcmp(keyname, KeyName(i)) = 0
                       /\ \A j \in Keys : j < i =>
                            ~(KeyName(j) # NULL /\ strcmp(keyname, KeyName(j)) = 0))>>
        ELSE <<>>

\* while(position < left && sscanf(word + position, "%10[^:,]%n", ...) == 1)
RECURSIVE KeyScan(_, _, _, _, _, _)
KeyScan(S, w, position, left, right, uninit) ==
    LET field   == Span(w, position + 1, {":", ","}, KeynameMax)
        keyname == SubSeq(w, position + 1, position + field)
        p2      == position + field
        p3      == IF p2 + 1 <= Len(w) /\ w[p2 + 1] = "," THEN p2 + 1 ELSE p2
    IN  IF position < left /\ field > 0
        THEN KeyCalls(S, keyname, right, uninit)
               \o KeyScan(S, w, p3, left, right, uninit)
        ELSE <<>>

\* "For anything else, split the parameter at the colon"
ColonSplit(S, w, uninit) ==
    LET left  == colon_left(w)
        r0    == SubSeq(w, left + 1, Len(w))
        right == IF Len(r0) > 0 /\ r0[1] = ":" THEN Tail(r0) ELSE r0
    IN  IF left <= 0 THEN S
        ELSE IF S.command \in {MACRO, DPI}
        THEN Log(S, Call("do_macro", S.command, S.mode, S.notifynumber, 0,
                         SubSeq(w, 1, left), right, 0))
        ELSE [S EXCEPT !.calls = @ \o KeyScan(S, w, 0, left, right, uninit)]

\* The rate that the argument of pollrate names, or -1.
PollrateOf(w) ==
    IF strcmp(w, <<"8">>) = 0 THEN POLLRATE_8MS
    ELSE IF strcmp(w, <<"4">>) = 0 THEN POLLRATE_4MS
    ELSE IF strcmp(w, <<"2">>) = 0 THEN POLLRATE_2MS
    ELSE IF strcmp(w, <<"1">>) = 0 THEN POLLRATE_1MS
    ELSE IF strcmp(w, <<"0",".","5">>) = 0 THEN POLLRATE_05MS
    ELSE IF strcmp(w, <<"0",".","2","5">>) = 0 THEN POLLRATE_025MS
    ELSE IF strcmp(w, <<"0",".","1">>) = 0 THEN POLLRATE_01MS
    ELSE 0 - 1

\* No rate is too fast
TooFast_Off(rate, maxpollrate) == FALSE

\* rate > kb->maxpollrate
TooFast(rate, maxpollrate) == rate > maxpollrate

\* "Specially handled commands only available when keyboard is ACTIVE"
ActiveFamily(S, w, env) ==
    LET c == S.command IN
    IF c = IDLE
    THEN Harness(S, Call("idle", NONE, S.mode, S.notifynumber, 0, NULL, NULL, 0))
    ELSE IF c = SWITCH
    THEN IF ProfileCurrentMode(S) # S.mode THEN [S EXCEPT !.pc = SwitchSteps[1]] ELSE S
    ELSE IF c \in {HWLOAD, HWSAVE}
    THEN Harness([S EXCEPT !.delay = S.usbdelay,
                           !.usbdelay = IF S.usbdelay < 10 THEN 10 ELSE S.usbdelay],
                 Call("do_io", c, S.mode, S.notifynumber, 1, NULL, NULL, 0))
    ELSE IF c = FWUPDATE
    THEN FwupdateResult(
            vt_fwupdate(
               Log(S, Call("fwupdate", NONE, S.mode, S.notifynumber, 0,
                           w, NULL, env.ret)),
               env.ret, env.fixed),
            env.ret)
    ELSE IF c = POLLRATE
    THEN IF HAS_FEATURES(S, "FEAT_ADJRATE") /\ PollrateOf(w) >= 0
         THEN IF TooFast(PollrateOf(w), S.hw.maxpollrate)
              THEN Log(S, Call("ckb_err", NONE, NoMode, 0, 0, w, NULL, 0))
              ELSE Harness(S, Call("pollrate", NONE, NoMode, 0, PollrateOf(w),
                                   NULL, NULL, 0))
         ELSE S
    ELSE IF c = ERASEPROFILE
    THEN Rebind(vt_eraseprofile(
                  Log(S, Call("eraseprofile", NONE, S.mode, S.notifynumber, 0,
                              NULL, NULL, 0)),
                  env.newp))
    ELSE IF c \in {ERASE, NAME, IOFF, ION, IAUTO, INOTIFY, PROFILENAME, ID,
                   PROFILEID, DPISEL, LIFT, SNAP}
    THEN Log(S, Call("do_cmd", c, S.mode, S.notifynumber, 0, w, NULL, 0))
    ELSE IF c = RGB /\ sscanf_rgb(w) = 3
    THEN [S EXCEPT !.calls = @ \o
            [i \in 1..N_KEYS_EXTENDED |->
                Call("rgb", NONE, S.mode, 0 - 1, i - 1, w, NULL, 0)]]
    ELSE IF c = MACRO /\ strcmp(w, <<"c","l","e","a","r">>) = 0
    THEN Log(S, Call("macro", NONE, S.mode, S.notifynumber, 0, NULL, NULL, 0))
    ELSE ColonSplit(S, w, env.uninit)

\* The activation gate left out
ActiveGate_Off(S, w, env) == ActiveFamily(S, w, env)

\* "If a keyboard is inactive, it must be activated before receiving any
\* other commands"
ActiveGate(S, w, env) ==
    IF ~S.active
    THEN IF S.command = ACTIVE
         THEN Harness(S, Call("active", NONE, S.mode, S.notifynumber, 0,
                              NULL, NULL, 0))
         ELSE S
    ELSE ActiveFamily(S, w, env)

\* Any node may be removed
NotifyOffOk_Any(notify) == TRUE

\* notify != 0: "notify0 can't be removed"
NotifyOffOk(notify) == notify # 0

\* "Specially handled commands - these are available even when keyboard is
\* IDLE"
AlwaysFamily(S, w, env) ==
    LET c == S.command
        d == sscanf_d(w)
        u == sscanf_u(w)
    IN
    IF c = NOTIFYON
    THEN IF d.ret = 1 THEN mknotifynode(S, d.val) ELSE S
    ELSE IF c = NOTIFYOFF
    THEN IF d.ret = 1 /\ NotifyOffOk(d.val) THEN rmnotifynode(S, d.val) ELSE S
    ELSE IF c = GET
    THEN Log(S, Call("get", NONE, S.mode, S.notifynumber, 0, w, NULL, 0))
    ELSE IF c = LAYOUT
    THEN IF strcmp(w, <<"a","n","s","i">>) = 0
         THEN [S EXCEPT !.features = (@ \ FEAT_LMASK) \cup {"FEAT_ANSI"}]
         ELSE IF strcmp(w, <<"i","s","o">>) = 0
         THEN [S EXCEPT !.features = (@ \ FEAT_LMASK) \cup {"FEAT_ISO"}]
         ELSE S
    ELSE IF c = MODE
    THEN IF d.ret = 1 /\ ModeOk(d.val)
         THEN [S EXCEPT !.mode = [p |-> S.profile, i |-> d.val]]
         ELSE S
    ELSE IF c = FPS
    THEN IF u.ret = 1 /\ u.val # 0
         THEN [S EXCEPT !.usbdelay = FpsDelay(u.val, per_frame(S))]
         ELSE S
    ELSE IF c = DITHER
    THEN IF u.ret = 1 /\ u.val >= 0 /\ u.val <= 1
         THEN [S EXCEPT !.dither = u.val,
                        !.forceupdate = [@ EXCEPT ![ProfileCurrentMode(S).i] = TRUE,
                                                  ![S.mode.i] = TRUE]]
         ELSE S
    ELSE IF c = DELAY
    THEN S
    ELSE IF c = RESET
    THEN Log(S, Call("reset", NONE, S.mode, S.notifynumber, 0, w, NULL, 0))
    ELSE ActiveGate(S, w, env)

\* The body of while((word = strtok_r(intok, " ", &ptr))) for one word.
ReadWord(S0, w, env) ==
    LET S  == [S0 EXCEPT !.calls = <<>>]
        i  == MatchIndex(w)
        c  == IF i > 0 THEN Demote(S.OS_MAC, i - 1 + CMD_FIRST) ELSE S.command
        S1 == [S EXCEPT !.command = c]
        at == sscanf_at_d(w)
    IN  IF i > 0 /\ ~IsActionVerb(c) THEN S1
        ELSE IF at.ret = 1 /\ ChannelOk(at.val)
        THEN [S1 EXCEPT !.notifynumber = at.val]
        ELSE IF Rejected(S1) THEN S1
        ELSE IF FwRejects(S1) THEN S1
        ELSE AlwaysFamily(S1, w, env)

(***************************************************************************)
(* Time.  A struct timespec is a record; long is 32 bits wide (an ILP32    *)
(* build), so that LONG_MAX and the sums of timespec_diff_ns are numbers   *)
(* the model can hold.                                                     *)
(***************************************************************************)
LONG_MAX == 2147483647
MaxSec == 1

Timespec(s, n) == [tv_sec |-> s, tv_nsec |-> n]

\* x + y in two's complement, for y > 0, without leaving the range of long
AddWrap(x, y) ==
    IF x > LONG_MAX - y
    THEN (x - LONG_MAX - 1) + (y - LONG_MAX - 1)
    ELSE x + y

\* x - y in two's complement, for y > 0, without leaving the range of long
SubWrap(x, y) ==
    IF x < (y - LONG_MAX) - 1
    THEN ((x + LONG_MAX) + 1) + ((LONG_MAX - y) + 1)
    ELSE x - y

\* diff_ns + diff_s * 1000000000L in two's complement: the sum itself when
\* it is in the range of long.
RECURSIVE WrapSum(_, _)
WrapSum(diff_s, diff_ns) ==
    IF diff_s = 0 THEN diff_ns
    ELSE IF diff_s > 0 THEN WrapSum(diff_s - 1, AddWrap(diff_ns, NSEC_PER_SEC))
    ELSE WrapSum(diff_s + 1, SubWrap(diff_ns, NSEC_PER_SEC))

\* Whether diff_ns + diff_s * 1000000000L is in the range of long, for the
\* diff_ns of two tv_nsec fields (less than 2 * 10^9 either way).
SumFits(diff_s, diff_ns) ==
    IF diff_s > 3 \/ diff_s < 0 - 3 THEN FALSE
    ELSE IF diff_s >= 2
    THEN diff_ns <= (LONG_MAX - NSEC_PER_SEC) - (diff_s - 1) * NSEC_PER_SEC
    ELSE IF diff_s <= 0 - 2
    THEN diff_ns >= ((0 - diff_s) - 1) * NSEC_PER_SEC - (LONG_MAX - NSEC_PER_SEC) - 1
    ELSE TRUE

\* The values timespec_diff_ns(a, b) can return.  A sum that overflows long
\* is undefined: the wrapped sum, or any other long (one for each way the
\* caller can go).
timespec_diff_ns(a, b) ==
    LET diff_s  == a.tv_sec - b.tv_sec
        diff_ns == a.tv_nsec - b.tv_nsec
    IN  IF diff_ns > 0 /\ (LONG_MAX - diff_ns) \div NSEC_PER_SEC <= diff_s
        THEN {LONG_MAX}
        ELSE IF SumFits(diff_s, diff_ns)
        THEN {WrapSum(diff_s, diff_ns)}
        ELSE {WrapSum(diff_s, diff_ns), 0 - 1, 1, HERTZ_LIM}

\* tv_nsec brought below one second
Norm(a) ==
    IF a.tv_nsec >= NSEC_PER_SEC
    THEN Timespec(a.tv_sec + 1, a.tv_nsec - NSEC_PER_SEC)
    ELSE a

\* a is not after b
TsLE(a, b) ==
    LET x == Norm(a)
        y == Norm(b)
    IN  \/ x.tv_sec < y.tv_sec
        \/ x.tv_sec = y.tv_sec /\ x.tv_nsec <= y.tv_nsec

\* a + ns, for 0 <= ns < NSEC_PER_SEC
TsAdd(a, ns) ==
    LET x == Norm(a) IN Norm(Timespec(x.tv_sec, x.tv_nsec + ns))

\* b is at least ns after a
TsApart(a, b, ns) == TsLE(TsAdd(a, ns), b)

(***************************************************************************)
(* The steps of readcmd.                                                   *)
(***************************************************************************)
Apply(S) ==
    /\ active' = S.active
    /\ needs_fw_update' = S.needs_fw_update
    /\ usbdelay' = S.usbdelay
    /\ dither' = S.dither
    /\ features' = S.features
    /\ notifynodes' = S.notifynodes
    /\ kb_profile' = S.kb_profile
    /\ currentmode' = S.currentmode
    /\ macros' = S.macros
    /\ forceupdate' = S.forceupdate
    /\ pc' = S.pc
    /\ profile' = S.profile
    /\ mode' = S.mode
    /\ notifynumber' = S.notifynumber
    /\ command' = S.command
    /\ word' = S.word
    /\ delay' = S.delay
    /\ hcall' = S.hcall
    /\ retval' = S.retval
    /\ calls' = S.calls
    /\ seen_rgb' = S.seen_rgb
    /\ UNCHANGED <<hw, OS_MAC>>

\* Entry of readcmd, up to the first strtok_r.
BeginLine ==
    /\ pc = "idle"
    /\ pc' = "words"
    /\ profile' = kb_profile
    /\ mode' = [p |-> kb_profile, i |-> currentmode]
    /\ notifynumber' = 0
    /\ command' = NONE
    /\ word' = NULL
    /\ retval' = 0 - 1
    /\ calls' = <<>>
    /\ seen_rgb' = FALSE
    /\ UNCHANGED <<active, needs_fw_update, usbdelay, dither, features, hw,
                   OS_MAC, notifynodes, last_rgb, kb_profile, currentmode,
                   macros, forceupdate, imutex, clock, delay, hcall, macro_i,
                   ipc>>

\* What the collaborators may answer while word is processed: the value
\* fwupdate returns and whether it left valid firmware, the address of the
\* profile eraseprofile makes, and the value of an uninitialised keycode.
\* Each is a choice only for a word that can ask for it.  Fix tells whether
\* an update can leave valid firmware.
Answers(c, w, Fix) ==
    [ret    : IF c = FWUPDATE THEN {0, 1} ELSE {0},
     fixed  : IF c = FWUPDATE THEN Fix ELSE {FALSE},
     newp   : IF c = ERASEPROFILE \/ w = Verb(ERASEPROFILE)
              THEN ProfileIds ELSE {1},
     uninit : IF \E k \in 1..Len(w) : w[k] = "#"
              THEN 0..N_KEYS_EXTENDED ELSE {0}]

\* strtok_r gives the next word of the line, one of W.
Word(W, Fix) ==
    /\ pc = "words"
    /\ \E w \in W :
          \E env \in Answers(command, w, Fix) :
             Apply(ReadWord([State EXCEPT !.word = w,
                                          !.seen_rgb = @ \/ w = Verb(RGB)],
                            w, env))
    /\ UNCHANGED <<last_rgb, imutex, clock, macro_i, ipc>>

\* The rate limiter of the flush: what last_rgb becomes and when the flush
\* goes on, for the clock reading now and the difference diff.
Throttle(now, diff) ==
    IF diff > 0 /\ diff < HERTZ_LIM
    THEN [last_rgb |-> [now EXCEPT !.tv_nsec = @ + (HERTZ_LIM - diff)],
          clock    |-> TsAdd(now, HERTZ_LIM - diff)]
    ELSE [last_rgb |-> now, clock |-> now]

\* if(command == RGB): whether the flush passes through the rate limiter
Limited(c) == c = RGB

\* strtok_r gives NULL: "Finish up".  The clock reads now, one of T.
EndLine(T) ==
    /\ pc = "words"
    /\ \E now \in T :
         /\ TsLE(clock, now)
         /\ IF needs_fw_update
            THEN /\ Apply(Return0([State EXCEPT !.calls = <<>>]))
                 /\ clock' = now
                 /\ UNCHANGED last_rgb
            ELSE /\ Apply(Harness([State EXCEPT !.calls = <<>>],
                          Call("updatergb", NONE, NoMode, 0, 0, NULL, NULL, 0)))
                 /\ IF Limited(command)
                    THEN \E diff \in timespec_diff_ns(now, last_rgb) :
                            /\ last_rgb' = Throttle(now, diff).last_rgb
                            /\ clock' = Throttle(now, diff).clock
                    ELSE /\ clock' = now
                         /\ UNCHANGED last_rgb
    /\ UNCHANGED <<imutex, macro_i, ipc>>

\* What a call of the harness does to the device: active and idle set
\* kb->active, and may have done so before a transfer failed.
vt_harnessed(S, c, ret, done) ==
    IF c.fn = "active" /\ (ret = 0 \/ done) THEN [S EXCEPT !.active = TRUE]
    ELSE IF c.fn = "idle" /\ (ret = 0 \/ done) THEN [S EXCEPT !.active = FALSE]
    ELSE S

\* The flush without updatedpi
AfterCall_NoDpi(S, c) ==
    IF c.fn = "do_io"
    THEN Harness(S, Call("updatergb", NONE, NoMode, 0, 1, NULL, NULL, 0))
    ELSE IF c.fn = "updatergb" /\ c.key = 1
    THEN [S EXCEPT !.usbdelay = S.delay, !.delay = 0, !.pc = "words",
                   !.hcall = NoCall]
    ELSE IF c.fn \in {"updatergb", "updatedpi"}
    THEN Return0(S)
    ELSE [S EXCEPT !.pc = "words", !.hcall = NoCall]

\* Where readcmd goes on after the call c of the harness returned 0.
AfterCall(S, c) ==
    IF c.fn = "do_io"
    THEN Harness(S, Call("updatergb", NONE, NoMode, 0, 1, NULL, NULL, 0))
    ELSE IF c.fn = "updatergb" /\ c.key = 1
    THEN [S EXCEPT !.usbdelay = S.delay, !.delay = 0, !.pc = "words",
                   !.hcall = NoCall]
    ELSE IF c.fn = "updatergb"
    THEN Harness(S, Call("updatedpi", NONE, NoMode, 0, 0, NULL, NULL, 0))
    ELSE IF c.fn = "updatedpi"
    THEN Return0(S)
    ELSE [S EXCEPT !.pc = "words", !.hcall = NoCall]

\* The call made again after it returned 0
TryResult_Again(S, ret) ==
    IF ret # 0 THEN [S EXCEPT !.pc = "reset"] ELSE [S EXCEPT !.pc = "try"]

\* while(action): the call returned ret.
TryResult(S, ret) ==
    IF ret # 0 THEN [S EXCEPT !.pc = "reset"] ELSE AfterCall(S, S.hcall)

\* The harness going on after a reset that failed
ResetResult_Go(S, ret) == [S EXCEPT !.pc = "try"]

\* if(usb_tryreset(kb)) return 1: the reset returned ret.
ResetResult(S, ret) ==
    IF ret # 0 THEN Return1(S) ELSE [S EXCEPT !.pc = "try"]

\* One attempt of the call of TRY_WITH_RESET.
Try ==
    /\ pc = "try"
    /\ \E ret \in {0, 1}, done \in BOOLEAN :
          Apply(TryResult(
                  vt_harnessed([State EXCEPT !.calls = <<[hcall EXCEPT !.ret = ret]>>],
                               hcall, ret, done),
                  ret))
    /\ UNCHANGED <<last_rgb, imutex, clock, macro_i, ipc>>

\* usb_tryreset after an attempt that failed.
Reset ==
    /\ pc = "reset"
    /\ \E ret \in {0, 1} :
          Apply(ResetResult(
                  [State EXCEPT !.calls =
                      <<Call("usb_tryreset", NONE, NoMode, 0, 0, NULL, NULL, ret)>>],
                  ret))
    /\ UNCHANGED <<last_rgb, imutex, clock, macro_i, ipc>>

FrameVars == <<profile, mode, notifynumber, command, word, delay, hcall,
              retval, seen_rgb>>
DeviceVars == <<active, needs_fw_update, usbdelay, dither, features, hw, OS_MAC,
                notifynodes, last_rgb, kb_profile>>

\* queued_mutex_lock(imutex(kb))
SwLock ==
    /\ pc = "sw_lock"
    /\ imutex = "none"
    /\ imutex' = "readcmd"
    /\ pc' = SwNext("sw_lock")
    /\ calls' = <<>>
    /\ UNCHANGED <<DeviceVars, FrameVars, currentmode, macros, forceupdate,
                   clock, macro_i, ipc>>

\* for(i < bind->macrocount) bind->macros[i].triggered = 0, one turn of the
\* loop, on the macros of profile->currentmode
SwClear ==
    /\ pc = "sw_clear"
    /\ IF macro_i < MacroCount
       THEN /\ macros' = [macros EXCEPT ![currentmode][macro_i + 1] = FALSE]
            /\ macro_i' = macro_i + 1
            /\ pc' = pc
       ELSE /\ macro_i' = 0
            /\ pc' = SwNext("sw_clear")
            /\ UNCHANGED macros
    /\ calls' = <<>>
    /\ UNCHANGED <<DeviceVars, FrameVars, currentmode, forceupdate, imutex,
                   clock, ipc>>

\* profile->currentmode = mode
SwSet ==
    /\ pc = "sw_set"
    /\ currentmode' = mode.i
    /\ pc' = SwNext("sw_set")
    /\ calls' = <<>>
    /\ UNCHANGED <<DeviceVars, FrameVars, macros, forceupdate, imutex, clock,
                   macro_i, ipc>>

\* queued_mutex_unlock(imutex(kb))
SwUnlock ==
    /\ pc = "sw_unlock"
    /\ imutex' = "none"
    /\ pc' = SwNext("sw_unlock")
    /\ calls' = <<>>
    /\ UNCHANGED <<DeviceVars, FrameVars, currentmode, macros, forceupdate,
                   clock, macro_i, ipc>>

\* vt->setmodeindex(kb, INDEX_OF(mode, profile->mode))
SwIndex ==
    /\ pc = "sw_index"
    /\ calls' = <<Call("setmodeindex", NONE, NoMode, 0, INDEX_OF(mode), NULL, NULL, 0)>>
    /\ pc' = SwNext("sw_index")
    /\ UNCHANGED <<DeviceVars, FrameVars, currentmode, macros, forceupdate,
                   imutex, clock, macro_i, ipc>>

(***************************************************************************)
(* The input thread of the device: under imutex it sets and clears the     *)
(* triggered flags of the macros of the current mode.                      *)
(***************************************************************************)
InputLock ==
    /\ ipc = "idle"
    /\ imutex = "none"
    /\ imutex' = "input"
    /\ ipc' = "locked"
    /\ UNCHANGED <<DeviceVars, FrameVars, currentmode, macros, forceupdate,
                   clock, pc, macro_i, calls>>

InputTrigger ==
    /\ ipc = "locked"
    /\ \E k \in 1..MacroCount, v \in BOOLEAN :
          macros' = [macros EXCEPT ![currentmode][k] = v]
    /\ ipc' = "fired"
    /\ UNCHANGED <<DeviceVars, FrameVars, currentmode, forceupdate, imutex,
                   clock, pc, macro_i, calls>>

InputUnlock ==
    /\ ipc \in {"locked", "fired"}
    /\ imutex' = "none"
    /\ ipc' = "idle"
    /\ UNCHANGED <<DeviceVars, FrameVars, currentmode, macros, forceupdate,
                   clock, pc, macro_i, calls>>

(***************************************************************************)
(* Devices, the words of the lines and the readings of the clock.          *)
(***************************************************************************)
Keyboard ==
    [features |-> {"FEAT_BIND", "FEAT_NOTIFY", "FEAT_ADJRATE", "FEAT_ANSI"},
     hw |-> [mouse |-> FALSE, fullrange |-> TRUE, maxpollrate |-> POLLRATE_1MS]]
Mouse ==
    [features |-> {"FEAT_BIND", "FEAT_NOTIFY", "FEAT_ADJRATE", "FEAT_ANSI"},
     hw |-> [mouse |-> TRUE, fullrange |-> FALSE, maxpollrate |-> POLLRATE_01MS]]
Legacy ==
    [features |-> {"FEAT_ISO"},
     hw |-> [mouse |-> FALSE, fullrange |-> FALSE, maxpollrate |-> POLLRATE_1MS]]

Time0 == Timespec(0, 0)

\* The state after the device is set up: no line is being read.
InitWith(devs, fw, os, act, delays) ==
    /\ \E d \in devs : features = d.features /\ hw = d.hw
    /\ needs_fw_update \in fw
    /\ OS_MAC \in os
    /\ active \in act
    /\ usbdelay \in delays
    /\ dither = 0
    /\ notifynodes = {0}
    /\ last_rgb = Time0
    /\ kb_profile = 1
    /\ currentmode = 1
    /\ macros = FreshMacros
    /\ forceupdate = FreshForce
    /\ imutex = "none"
    /\ clock = Time0
    /\ pc = "idle"
    /\ profile = 0
    /\ mode = NoMode
    /\ notifynumber = 0
    /\ command = NONE
    /\ word = NULL
    /\ delay = 0
    /\ hcall = NoCall
    /\ retval = 0 - 1
    /\ macro_i = 0
    /\ calls = <<>>
    /\ seen_rgb = FALSE
    /\ ipc = "idle"

\* Argument words.
w_at1 == <<"@","1">>
w_atneg == <<"@","-","1">>
w_at2 == <<"@","2">>
w_0 == <<"0">>
w_1 == <<"1">>
w_2 == <<"2">>
w_3 == <<"3">>
w_neg1 == <<"-","1">>
w_60 == <<"6","0">>
w_500 == <<"5","0","0">>
w_100000 == <<"1","0","0","0","0","0">>
w_x == <<"x">>
w_hex == <<"f","f","0","0","8","0">>
w_keys == <<"a",",","#","1",":","f","f">>
w_all == <<"a","l","l",":","o","n">>
w_hash == <<"#",":","f","f">>
w_clear == <<"c","l","e","a","r">>
w_iso == <<"i","s","o">>
w_01 == <<"0",".","1">>

w_macro == <<"m","1",":","x">>

\* The words of the lines of Spec: the gates, the dispatcher, the harness.
Words ==
    { Verb(c) : c \in {ACTIVE, IDLE, MODE, SWITCH, HWLOAD, FWUPDATE, POLLRATE,
                       ERASEPROFILE, NAME, RGB, MACRO, BIND, GET, RESET} }
    \cup {w_at1, w_atneg, w_1, w_2, w_x, w_hex, w_keys, w_clear, w_macro}

Next ==
    \/ BeginLine
    \/ Word(Words, BOOLEAN)
    \/ EndLine({Time0})
    \/ Try
    \/ Reset
    \/ SwLock
    \/ SwClear
    \/ SwSet
    \/ SwUnlock
    \/ SwIndex

Init == InitWith({Keyboard}, BOOLEAN, {FALSE}, {FALSE, TRUE}, {5})

Spec == Init /\ [][Next]_vars

\* A device whose firmware is invalid and stays so: no update repairs it.
\* Every word is rejected or leaves readcmd at the next word.
WordsFw ==
    { Verb(c) : c \in {FWUPDATE, NOTIFYON, NOTIFYOFF, RESET, GET, ACTIVE, IDLE,
                       MODE, SWITCH, HWLOAD, POLLRATE, ERASEPROFILE, NAME, RGB,
                       MACRO, FPS, DITHER, LAYOUT} }
    \cup {w_1, w_2, w_x, w_hex, w_clear, w_macro, w_keys, w_iso, w_60}

NextFw ==
    \/ BeginLine
    \/ Word(WordsFw, {FALSE})
    \/ EndLine({Time0, Timespec(0, 1)})

InitFw == InitWith({Keyboard, Mouse}, {TRUE}, BOOLEAN, BOOLEAN, {5})

SpecFw == InitFw /\ [][NextFw]_vars

(***************************************************************************)
(* C1.  While needs_fw_update is true, a step of readcmd makes no call     *)
(* other than fwupdate, mknotifynode, rmnotifynode and reset, starts no    *)
(* call of the harness (active, idle, do_io, pollrate, updatergb,          *)
(* updatedpi) and no mode switch, and leaves usbdelay, dither, features,   *)
(* last_rgb and the current mode of the profile as they were.              *)
(***************************************************************************)
FwCalls == {"fwupdate", "mknotifynode", "rmnotifynode", "reset"}

C1_FwGate ==
    [][(needs_fw_update /\ needs_fw_update') =>
          /\ \A k \in DOMAIN calls' : calls'[k].fn \in FwCalls
          /\ pc' \in {"idle", "words", "lost"}
          /\ hcall' = NoCall
          /\ usbdelay' = usbdelay
          /\ dither' = dither
          /\ features' = features
          /\ last_rgb' = last_rgb
          /\ kb_profile' = kb_profile
          /\ currentmode' = currentmode]_vars

\* hwload was read on an active device with invalid firmware, and did
\* nothing.
C1_Witness ==
    /\ needs_fw_update
    /\ active
    /\ pc = "words"
    /\ command = HWLOAD
    /\ usbdelay = 5

\* A step of readcmd that takes a word of the line: it goes on to the next
\* word, to a harnessed call of the dispatcher, to a mode switch or returns 1.
\* (A step of the input thread moves ipc.)
WordStep ==
    /\ pc = "words"
    /\ ipc' = ipc
    /\ pc' # "idle"
    /\ ~(pc' = "try" /\ hcall'.fn = "updatergb" /\ hcall'.key = 0)

\* The vtable calls of the dispatcher that come after the activation gate.
GatedCalls ==
    {"idle", "setmodeindex", "do_io", "fwupdate", "pollrate", "eraseprofile",
     "do_cmd", "rgb", "macro", "do_macro"}

(***************************************************************************)
(* C2: while device.active is false, no word makes a call of the gated     *)
(* part of the dispatcher other than vtable.active (through the harness),  *)
(* no mode switch is started and profile.current_mode stays as it is.  A   *)
(* vtable.active call that returned 0 has set device.active and gives the  *)
(* line back to the word loop, where a word on an active device with valid *)
(* firmware is dispatched: the verbs idle and hwload reach their calls.    *)
(***************************************************************************)
C2_ActiveGate ==
    [][ /\ (WordStep /\ ~active) =>
              /\ \A k \in DOMAIN calls' : calls'[k].fn \notin GatedCalls
              /\ pc' \in {"words", "try"}
              /\ pc' = "try" => (hcall'.fn = "active" /\ command' = ACTIVE)
              /\ currentmode' = currentmode
              /\ kb_profile' = kb_profile
              /\ active' = active
        /\ (pc = "try" /\ hcall.fn = "active" /\ pc' = "words") =>
              /\ active'
              /\ calls' = <<[hcall EXCEPT !.ret = 0]>>
        /\ (WordStep /\ active /\ ~needs_fw_update /\ word' = Verb(IDLE)) =>
              (pc' = "try" /\ hcall'.fn = "idle")
        /\ (WordStep /\ active /\ ~needs_fw_update /\ word' = Verb(HWLOAD)) =>
              (pc' = "try" /\ hcall'.fn = "do_io" /\ hcall'.cmd = HWLOAD)
      ]_vars

\* A word of the gated part was taken on an inactive device and dropped.
C2_Witness ==
    /\ ~active
    /\ ~needs_fw_update
    /\ pc = "words"
    /\ word = Verb(HWLOAD)
    /\ command = HWLOAD
    /\ calls = <<>>


\* The calls readcmd makes through TRY_WITH_RESET.
Harnessed == {"active", "idle", "do_io", "updatergb", "updatedpi", "pollrate"}

\* The step is an attempt of the pending call of the harness.
Attempt == pc = "try" /\ Len(calls') = 1 /\ calls'[1].fn = hcall.fn

\* The step is the usb_tryreset the harness asked for.
ResetCall == pc = "reset" /\ Len(calls') = 1 /\ calls'[1].fn = "usb_tryreset"

(***************************************************************************)
(* C3: the harness.  A pending call is one of the six harnessed calls.  An *)
(* attempt that returned 0 is not followed by another attempt of the same  *)
(* call; an attempt that returned non-zero is followed by usb_tryreset     *)
(* with the call still pending; a usb_tryreset that returned 0 is followed *)
(* by the next attempt of that call, so exactly one reset lies between two *)
(* attempts; a usb_tryreset that failed makes readcmd return 1, and after  *)
(* that return no call is made and nothing of the device changes.          *)
(***************************************************************************)
C3_Harness ==
    [][ /\ pc \in {"try", "reset"} => hcall.fn \in Harnessed
        /\ pc = "try" => Attempt
        /\ pc = "reset" => ResetCall
        /\ (Attempt /\ calls'[1].ret = 0) =>
              /\ pc' # "reset"
              /\ ~(pc' = "try" /\ hcall' = hcall)
        /\ (Attempt /\ calls'[1].ret # 0) =>
              /\ pc' = "reset"
              /\ hcall' = hcall
        /\ (ResetCall /\ calls'[1].ret = 0) =>
              /\ pc' = "try"
              /\ hcall' = hcall
        /\ (ResetCall /\ calls'[1].ret # 0) =>
              /\ pc' = "lost"
              /\ retval' = 1
        /\ pc' = "reset" => (pc = "try" /\ calls'[1].ret # 0)
        /\ pc = "lost" => FALSE
      ]_vars

\* The pending hwload is about to be attempted again after a reset that
\* succeeded.
C3_Witness ==
    /\ pc = "try"
    /\ hcall.fn = "do_io"
    /\ Len(calls) = 1
    /\ calls[1].fn = "usb_tryreset"
    /\ calls[1].ret = 0

\* A call that failed: a usb_tryreset or a fwupdate that returned non-zero.
Failed(c) == c.fn \in {"usb_tryreset", "fwupdate"} /\ c.ret # 0

(***************************************************************************)
(* C4: readcmd has returned 1 exactly when the last call it made is a      *)
(* usb_tryreset or a fwupdate that returned non-zero, and every other end  *)
(* of a line is a return of 0.  The failed call is the last one: with a    *)
(* failed fwupdate there is no second fwupdate, no usb_tryreset, no later  *)
(* word and neither updatergb nor updatedpi.                               *)
(***************************************************************************)
C4_Returned ==
    /\ retval \in {0 - 1, 0, 1}
    /\ retval = 1 <=> pc = "lost"
    /\ retval = 0 => pc = "idle"
    /\ pc = "idle" => retval \in {0 - 1, 0}
    /\ pc = "lost" <=> (calls # <<>> /\ Failed(calls[Len(calls)]))
    /\ \A k \in DOMAIN calls : Failed(calls[k]) => k = Len(calls)
    /\ \A k \in DOMAIN calls :
          (calls[k].fn = "fwupdate" /\ calls[k].ret # 0) =>
              (Len(calls) = 1 /\ hcall = NoCall)

C4_ReturnValue ==
    /\ []C4_Returned
    /\ [][pc = "lost" => FALSE]_vars

\* fwupdate returned non-zero and readcmd returned 1.
C4_Witness ==
    /\ pc = "lost"
    /\ retval = 1
    /\ calls # <<>>
    /\ calls[Len(calls)].fn = "fwupdate"
    /\ calls[Len(calls)].ret # 0


\* The call is one of the two calls of the flush.
IsFlush(c) == c.fn = "updatedpi" \/ (c.fn = "updatergb" /\ c.key = 0)

\* readcmd is in the flush: one of its two calls is pending.
InFlush == pc \in {"try", "reset"} /\ IsFlush(hcall)

(***************************************************************************)
(* C5: the flush.  At the end of the words of a line, whether the device   *)
(* is active or not, readcmd returns 0 at once if needs_fw_update is true  *)
(* and otherwise goes to updatergb(force=0): a line with valid firmware    *)
(* returns 0 only after updatedpi(force=0) returned 0, and updatedpi gets  *)
(* pending only when updatergb(force=0) has returned 0.  Once a call of    *)
(* the flush is pending readcmd takes no more words and makes only calls   *)
(* of the flush and usb_tryreset.  While needs_fw_update is true no step   *)
(* from the word loop makes a call of the flush pending.                   *)
(***************************************************************************)
C5_Flush ==
    [][ /\ (pc = "words" /\ ~WordStep) =>
              IF needs_fw_update
              THEN pc' = "idle" /\ retval' = 0 /\ calls' = <<>>
              ELSE /\ pc' = "try"
                   /\ hcall'.fn = "updatergb"
                   /\ hcall'.key = 0
                   /\ calls' = <<>>
        /\ (pc # "idle" /\ pc' = "idle") =>
              \/ pc = "words" /\ needs_fw_update
              \/ /\ pc = "try"
                 /\ hcall.fn = "updatedpi"
                 /\ calls' = <<[hcall EXCEPT !.ret = 0]>>
        /\ (hcall.fn # "updatedpi" /\ hcall'.fn = "updatedpi") =>
              /\ pc = "try"
              /\ hcall.fn = "updatergb"
              /\ hcall.key = 0
              /\ calls' = <<[hcall EXCEPT !.ret = 0]>>
              /\ hcall'.key = 0
        /\ (IsFlush(hcall') /\ ~IsFlush(hcall)) =>
              (pc = "words" /\ ~WordStep /\ hcall'.fn = "updatergb")
        /\ InFlush =>
              /\ pc' \in {"try", "reset", "idle", "lost"}
              /\ pc' \in {"try", "reset"} => IsFlush(hcall')
              /\ \A k \in DOMAIN calls' :
                    IsFlush(calls'[k]) \/ calls'[k].fn = "usb_tryreset"
        /\ (pc = "words" /\ needs_fw_update) => pc' # "try"
      ]_vars

\* The flush of a line read on an inactive device: updatergb has succeeded
\* and updatedpi is pending.
C5_Witness ==
    /\ ~active
    /\ pc = "try"
    /\ hcall.fn = "updatedpi"
    /\ calls = <<Call("updatergb", NONE, NoMode, 0, 0, NULL, NULL, 0)>>


(***************************************************************************)
(* Lines with the verb rgb in any place, read at several clock readings.   *)
(***************************************************************************)
NsecSamples == {0, 1, HERTZ_LIM - 1, HERTZ_LIM, NSEC_PER_SEC - 1}

Times == { Timespec(s, n) : s \in 0..MaxSec, n \in NsecSamples }

WordsRGB == {Verb(RGB), Verb(MODE), w_hex, w_1}

NextRGB ==
    \/ BeginLine
    \/ Word(WordsRGB, {FALSE})
    \/ EndLine(Times)
    \/ Try
    \/ Reset

InitRGB == InitWith({Keyboard}, {FALSE}, {FALSE}, {TRUE}, {5})

SpecRGB == InitRGB /\ [][NextRGB]_vars

(***************************************************************************)
(* C6: RGB rate limit.  When the flush of a line that holds the verb rgb,  *)
(* on a device with valid firmware, makes updatergb(force=0) pending, the  *)
(* clock is at least HERTZ_LIM past the last_rgb the line started with.    *)
(***************************************************************************)
C6_RateLimit ==
    [][ (pc = "words" /\ pc' = "try" /\ IsFlush(hcall')
         /\ seen_rgb /\ ~needs_fw_update) =>
            TsApart(last_rgb, clock', HERTZ_LIM) ]_vars


(***************************************************************************)
(* Lines that set the frame rate and load or save the hardware profile, on *)
(* every kind of device and from every delay of the range.                 *)
(***************************************************************************)
WordsDelay ==
    { Verb(c) : c \in {FPS, HWLOAD, HWSAVE, ACTIVE} }
    \cup {w_0, w_1, w_60, w_500, w_100000, w_neg1, w_x}

NextDelay ==
    \/ BeginLine
    \/ Word(WordsDelay, {FALSE})
    \/ EndLine({Time0})
    \/ Try
    \/ Reset

InitDelay ==
    InitWith({Keyboard, Mouse, Legacy}, {FALSE}, {FALSE}, BOOLEAN,
             MinDelay..MaxDelay)

SpecDelay == InitDelay /\ [][NextDelay]_vars

(***************************************************************************)
(* C7: kb->usbdelay is in [2,10] in every reachable state: after a frame   *)
(* rate of 0, 1, 60, 500, 100000, -1 or a word that is no number, while    *)
(* hwload or hwsave holds it at 10, after they put the saved delay back,   *)
(* and after readcmd returned 1 in the middle of hwload; the delay that    *)
(* hwload saved is in the range too.                                       *)
(***************************************************************************)
C7_DelayRange ==
    /\ usbdelay \in MinDelay..MaxDelay
    /\ (pc \in {"try", "reset", "lost"} /\ hcall.fn = "do_io") =>
          (usbdelay = MaxDelay /\ delay \in MinDelay..MaxDelay)
    /\ (pc \in {"try", "reset", "lost"} /\ hcall.fn = "updatergb"
        /\ hcall.key = 1) =>
          (usbdelay = MaxDelay /\ delay \in MinDelay..MaxDelay)

\* A mouse after fps 60: 1000 / 60 / 2 = 8.
C7_Witness ==
    /\ hw.mouse
    /\ pc = "words"
    /\ command = FPS
    /\ word = w_60
    /\ usbdelay = 8


(***************************************************************************)
(* Lines that choose, commit and erase modes, read while the input thread  *)
(* of the device runs.                                                     *)
(***************************************************************************)
w_9 == <<"9">>

WordsMode ==
    { Verb(c) : c \in {ACTIVE, IDLE, MODE, SWITCH, ERASEPROFILE} }
    \cup {w_0, w_1, w_2, w_3, w_9, w_neg1, w_x}

NextMode ==
    \/ BeginLine
    \/ Word(WordsMode, {FALSE})
    \/ EndLine({Time0})
    \/ Try
    \/ Reset
    \/ SwLock
    \/ SwClear
    \/ SwSet
    \/ SwUnlock
    \/ SwIndex
    \/ InputLock
    \/ InputTrigger
    \/ InputUnlock

InitMode == InitWith({Keyboard}, {FALSE}, {FALSE}, BOOLEAN, {5})

SpecMode == InitMode /\ [][NextMode]_vars

\* m is one of the MODE_COUNT modes of the profile the device has now.
InProfile(m) == m.p = kb_profile /\ m.i \in Modes

\* The step called vtable.eraseprofile.
Erased == WordStep /\ \E k \in DOMAIN calls' : calls'[k].fn = "eraseprofile"

C8_Modes ==
    /\ currentmode \in Modes
    /\ kb_profile \in ProfileIds
    /\ pc # "idle" => (profile = kb_profile /\ InProfile(mode))
    /\ \A k \in DOMAIN calls :
          (calls[k].mode # NoMode /\ calls[k].fn # "eraseprofile") =>
              InProfile(calls[k].mode)
    /\ (pc \in {"try", "reset"} /\ hcall.mode # NoMode) => InProfile(hcall.mode)

C8_Pending ==
    /\ (WordStep /\ mode' # mode) =>
          \/ /\ ~Erased
             /\ command' = MODE
             /\ sscanf_u(word').ret = 1
             /\ sscanf_u(word').val \in 1..MODE_COUNT
             /\ mode' = [p |-> kb_profile, i |-> sscanf_u(word').val]
          \/ /\ Erased
             /\ mode' = [p |-> kb_profile', i |-> currentmode']
    /\ Erased =>
          /\ \A k \in DOMAIN calls' :
                calls'[k].fn = "eraseprofile" => calls'[k].mode = mode
          /\ profile' = kb_profile'
    /\ (currentmode' # currentmode /\ ~Erased) =>
          (currentmode' = mode.i /\ mode.p = kb_profile)

(***************************************************************************)
(* C8: profile->currentmode is always one of the MODE_COUNT modes of the   *)
(* profile of the device, and so is the pending mode of readcmd: the mode  *)
(* it passes to vtable calls and the mode SWITCH commits.  The pending     *)
(* mode changes only by a MODE word with a number in 1..MODE_COUNT (any    *)
(* other number leaves it as it is) and by ERASEPROFILE, which binds it to *)
(* the current mode of the new profile; the call of eraseprofile itself    *)
(* gets the mode that was pending.                                         *)
(***************************************************************************)
C8_ModeOfProfile ==
    /\ []C8_Modes
    /\ [][C8_Pending]_vars

\* ERASEPROFILE gave the device a profile at another address and readcmd
\* took it over.
C8_Witness ==
    /\ pc = "words"
    /\ command = ERASEPROFILE
    /\ word = Verb(ERASEPROFILE)
    /\ kb_profile = 2
    /\ profile = 2
    /\ mode = [p |-> 2, i |-> 1]


\* No macro of a mode other than the current one has its triggered flag set.
NoStaleTriggers ==
    \A m \in Modes \ {currentmode} : \A k \in 1..MacroCount : ~macros[m][k]

\* The step called vtable.setmodeindex.
IndexSet ==
    /\ ipc' = ipc
    /\ calls' # calls
    /\ \E k \in DOMAIN calls' : calls'[k].fn = "setmodeindex"

C9_Locked ==
    /\ imutex # "readcmd" => NoStaleTriggers
    /\ pc \in {"idle", "words", "try", "reset", "lost"} => imutex # "readcmd"
    /\ imutex = "readcmd" => ipc = "idle"
    /\ imutex = "input" <=> ipc # "idle"

C9_Switch ==
    /\ (currentmode' # currentmode /\ ~Erased) =>
          /\ imutex = "readcmd"
          /\ imutex' = "readcmd"
          /\ currentmode' = mode.i
          /\ \A k \in 1..MacroCount : ~macros[currentmode][k]
          /\ macros' = macros
    /\ IndexSet =>
          /\ imutex # "readcmd"
          /\ imutex' = imutex
          /\ currentmode = mode.i
          /\ currentmode' = currentmode
          /\ calls' = <<Call("setmodeindex", NONE, NoMode, 0, currentmode - 1,
                             NULL, NULL, 0)>>
          /\ pc' = "words"
    /\ (pc' = "words" /\ pc \notin {"idle", "words", "try"}) => IndexSet
    /\ (WordStep /\ word' = Verb(SWITCH) /\ active /\ ~needs_fw_update) =>
          IF mode = [p |-> kb_profile, i |-> currentmode]
          THEN /\ pc' = "words"
               /\ calls' = <<>>
               /\ UNCHANGED <<imutex, currentmode, macros, forceupdate>>
          ELSE /\ pc' \notin {"idle", "words", "try", "reset", "lost"}
               /\ calls' = <<>>
               /\ UNCHANGED <<imutex, currentmode, macros, forceupdate>>

(***************************************************************************)
(* C9: SWITCH.  profile->currentmode is written (other than by the erase   *)
(* of the profile) only in a step that starts and ends with imutex held by *)
(* readcmd, with every triggered flag of the old current mode cleared, and *)
(* it becomes the pending mode.  setmodeindex is called after that, with   *)
(* the index of the new current mode and without the lock; readcmd does    *)
(* not hold the lock in the word loop, in a harnessed call or when it has  *)
(* returned.  Whenever readcmd does not hold imutex, so whenever another   *)
(* thread holds it, no mode but the current one has a triggered flag set.  *)
(* A SWITCH word on an active device whose pending mode is the current one *)
(* takes no lock, changes nothing and makes no call; with another pending  *)
(* mode readcmd leaves the word loop and comes back to it only through     *)
(* setmodeindex.                                                           *)
(***************************************************************************)
C9_SwitchUnderLock ==
    /\ []C9_Locked
    /\ [][C9_Switch]_vars

\* The switch from mode 1 to mode 2 is done: setmodeindex(1) was called.
C9_Witness ==
    /\ pc = "words"
    /\ command = SWITCH
    /\ currentmode = 2
    /\ imutex # "readcmd"
    /\ calls = <<Call("setmodeindex", NONE, NoMode, 0, 1, NULL, NULL, 0)>>


\* The calls that are passed the notification channel of the line.
Channelled(c) ==
    c.fn \in {"active", "idle", "do_io", "fwupdate", "eraseprofile", "do_cmd",
              "rgb", "macro", "do_macro", "get"}

\* A channel a call may be passed: one of the OUTFIFO_MAX channels, or the
\* -1 of the rgb broadcast.
ChannelArg(c) ==
    \/ c.chan \in 0..(OUTFIFO_MAX - 1)
    \/ c.fn = "rgb" /\ c.chan = 0 - 1

(***************************************************************************)
(* C10: every notification channel readcmd passes to a vtable call, made   *)
(* or pending, is an integer in [0, OUTFIFO_MAX), apart from the -1 of the *)
(* rgb broadcast.                                                          *)
(***************************************************************************)
C10_Channel ==
    /\ \A k \in DOMAIN calls : Channelled(calls[k]) => ChannelArg(calls[k])
    /\ (pc \in {"try", "reset"} /\ Channelled(hcall)) => ChannelArg(hcall)


(***************************************************************************)
(* Lines that select notification channels, make and remove notification   *)
(* nodes and make calls that are passed the channel.                       *)
(***************************************************************************)
w_at9 == <<"@","9">>

WordsChan ==
    { Verb(c) : c \in {GET, NAME, ACTIVE, IDLE, NOTIFYON, NOTIFYOFF, RGB} }
    \cup {w_at1, w_at2, w_at9, w_atneg, w_0, w_1, w_2, w_hex, w_x}

NextChan ==
    \/ BeginLine
    \/ Word(WordsChan, {FALSE})
    \/ EndLine({Time0})
    \/ Try
    \/ Reset

InitChan == InitWith({Keyboard}, BOOLEAN, {FALSE}, BOOLEAN, {5})

SpecChan == InitChan /\ [][NextChan]_vars

\* The word is an @N that readcmd takes as the channel of the line.
Selects(w) ==
    /\ MatchIndex(w) = 0
    /\ sscanf_at_d(w).ret = 1
    /\ sscanf_at_d(w).val < OUTFIFO_MAX

\* The channel the call c is passed is n (the rgb broadcast passes -1).
PassedChannel(c, n) ==
    Channelled(c) => (c.chan = n \/ (c.fn = "rgb" /\ c.chan = 0 - 1))

(***************************************************************************)
(* C11: the channel of a line.  It is 0 when readcmd starts on a line,     *)
(* whatever the line before selected.  A word @N that readcmd accepts      *)
(* makes N the channel, makes no call and leaves the notification nodes    *)
(* alone; every other word leaves the channel as it is, and each call made *)
(* or made pending for it is passed that channel.  The channel and the     *)
(* pending call stay as they are while the harness retries.                *)
(***************************************************************************)
C11_LineLocal ==
    [][ /\ (pc = "idle" /\ pc' = "words") => notifynumber' = 0
        /\ (WordStep /\ Selects(word')) =>
              /\ notifynumber' = sscanf_at_d(word').val
              /\ calls' = <<>>
              /\ pc' = "words"
              /\ hcall' = NoCall
              /\ UNCHANGED <<notifynodes, command>>
        /\ (WordStep /\ ~Selects(word')) =>
              /\ notifynumber' = notifynumber
              /\ \A k \in DOMAIN calls' : PassedChannel(calls'[k], notifynumber)
              /\ pc' = "try" => PassedChannel(hcall', notifynumber)
        /\ (pc \in {"try", "reset"} /\ pc' \in {"try", "reset", "words"}) =>
              notifynumber' = notifynumber
        /\ (pc \in {"try", "reset"} /\ pc' \in {"try", "reset"}
            /\ hcall'.fn = hcall.fn) => hcall' = hcall
      ]_vars

\* get was called with channel 1, selected by @1 earlier on the line.
C11_Witness ==
    /\ pc = "words"
    /\ command = GET
    /\ notifynumber = 1
    /\ calls = <<Call("get", NONE, mode, 1, 0, w_x, NULL, 0)>>


\* The word is an @N with N not below OUTFIFO_MAX.
OutOfRange(w) ==
    /\ MatchIndex(w) = 0
    /\ sscanf_at_d(w).ret = 1
    /\ sscanf_at_d(w).val >= OUTFIFO_MAX

(***************************************************************************)
(* C12: a word @N with N >= OUTFIFO_MAX is ignored: whatever the verb of   *)
(* the line and the state of the device, the step that takes it leaves the *)
(* channel as it is, makes no call, makes no call pending and changes      *)
(* nothing of the device.                                                  *)
(***************************************************************************)
C12_OutOfRange ==
    [][ (WordStep /\ OutOfRange(word')) =>
            /\ notifynumber' = notifynumber
            /\ calls' = <<>>
            /\ pc' = "words"
            /\ hcall' = NoCall
            /\ UNCHANGED <<DeviceVars, currentmode, macros, forceupdate>>
      ]_vars


(***************************************************************************)
(* readcmd on a whole line, with no other thread in between and with every *)
(* vtable call and reset returning 0: a function of the device and the     *)
(* line, put together from the steps above.                                *)
(***************************************************************************)
MaxLine == 4

\* What the collaborators answer when they succeed and keep the profile
\* where it is.
Quiet == [ret |-> 0, fixed |-> FALSE, newp |-> 1, uninit |-> 0]

\* The locals of readcmd before the first word.
Enter(S) ==
    [S EXCEPT !.pc = "words", !.profile = S.kb_profile,
              !.mode = [p |-> S.kb_profile, i |-> S.currentmode],
              !.notifynumber = 0, !.command = NONE, !.word = NULL,
              !.retval = 0 - 1, !.calls = <<>>, !.seen_rgb = FALSE]

\* The mode switch from the lock to setmodeindex.
SwitchDone(S) ==
    [S EXCEPT !.macros = [@ EXCEPT ![S.currentmode] =
                             [k \in 1..MacroCount |-> FALSE]],
              !.currentmode = S.mode.i,
              !.pc = "words",
              !.calls = <<Call("setmodeindex", NONE, NoMode, 0,
                               INDEX_OF(S.mode), NULL, NULL, 0)>>]

\* readcmd up to the next word: each pending call returns 0 at once.
RECURSIVE Settle(_)
Settle(S) ==
    IF S.pc = "try"
    THEN Settle(TryResult(vt_harnessed([S EXCEPT !.calls = <<S.hcall>>],
                                       S.hcall, 0, TRUE), 0))
    ELSE IF S.pc = SwitchSteps[1]
    THEN SwitchDone(S)
    ELSE S

\* The word loop over the words of line.
RECURSIVE RunWords(_, _)
RunWords(S, line) ==
    IF line = <<>> \/ S.pc # "words" THEN S
    ELSE RunWords(Settle(ReadWord([S EXCEPT !.word = Head(line)],
                                  Head(line), Quiet)),
                  Tail(line))

\* "Finish up", the rate limiter aside.
Flush(S) ==
    IF S.pc # "words" THEN S
    ELSE IF S.needs_fw_update THEN Return0(S)
    ELSE Settle(Harness(S, Call("updatergb", NONE, NoMode, 0, 0, NULL, NULL, 0)))

RunLine(S, line) == Flush(RunWords(Enter(S), line))

\* The state of the device that a line can change, last_rgb aside.
Dev(S) ==
    [active |-> S.active, currentmode |-> S.currentmode,
     usbdelay |-> S.usbdelay, dither |-> S.dither, features |-> S.features,
     macros |-> S.macros, forceupdate |-> S.forceupdate,
     notifynodes |-> S.notifynodes]

WordsTwice ==
    { Verb(c) : c \in {MODE, SWITCH, ACTIVE, IDLE} } \cup {w_1, w_2}

RECURSIVE LinesUpTo(_)
LinesUpTo(n) ==
    IF n = 0 THEN {<<>>}
    ELSE LinesUpTo(n - 1)
         \cup { Append(l, w) : l \in LinesUpTo(n - 1), w \in WordsTwice }

(***************************************************************************)
(* C13: a line read twice.  From every state in which readcmd is about to  *)
(* start on a line, and for every line of up to MaxLine words, the device  *)
(* after the second reading of the line is as it was after the first.      *)
(***************************************************************************)
C13_Idempotent ==
    pc = "idle" =>
        \A line \in LinesUpTo(MaxLine) :
            Dev(RunLine(RunLine(State, line), line)) = Dev(RunLine(State, line))


\* The words notifyon n notifyoff n.
OnOff(n) == <<Verb(NOTIFYON), n, Verb(NOTIFYOFF), n>>

\* Words that are numbers above 0.
NodeWords == {w_1, w_2, w_9}

\* C14 as stated: notifyon N notifyoff N, for N > 0, gives back the set of
\* notification nodes there was before, whether or not N was one of them.
C14_RoundTripAny ==
    pc = "words" =>
        \A n \in NodeWords :
            RunWords(State, OnOff(n)).notifynodes = notifynodes

(***************************************************************************)
(* C14: notifyon N notifyoff N, for N > 0 that is not a notification node  *)
(* before, gives back the set of nodes there was before: after notifyon N  *)
(* the set holds N besides (if N < OUTFIFO_MAX), after notifyoff N it is   *)
(* as it was.  Node 0 is there in every state.                             *)
(***************************************************************************)
C14_RoundTrip ==
    /\ 0 \in notifynodes
    /\ pc = "words" =>
          \A n \in NodeWords :
             sscanf_d(n).val \notin notifynodes =>
                /\ RunWords(State, SubSeq(OnOff(n), 1, 2)).notifynodes =
                      notifynodes \cup ({sscanf_d(n).val} \cap 0..(OUTFIFO_MAX - 1))
                /\ RunWords(State, OnOff(n)).notifynodes = notifynodes

\* notifyoff 1 has just removed node 1, which an earlier notifyon 1 made.
C14_Witness ==
    /\ pc = "words"
    /\ command = NOTIFYOFF
    /\ word = w_1
    /\ notifynodes = {0}
    /\ calls = <<Call("rmnotifynode", NONE, NoMode, 0, 1, NULL, NULL, 0)>>
    /\ ~needs_fw_update


(***************************************************************************)
(* Lines that set colours: hex constants of several shapes and key lists.  *)
(***************************************************************************)
w_abcde == <<"a","b","c","d","e">>
w_abcdefg == <<"a","b","c","d","e","f","g">>
w_upper == <<"A","B","C","D","E","F">>
w_key == <<"a",":","f","f">>

WordsHex ==
    {Verb(RGB), Verb(ACTIVE), w_at1, w_hex, w_abcde, w_abcdefg, w_upper,
     w_key, w_x}

NextHex ==
    \/ BeginLine
    \/ Word(WordsHex, {FALSE})
    \/ EndLine({Time0})
    \/ Try
    \/ Reset

InitHex == InitWith({Keyboard}, {FALSE}, {FALSE}, BOOLEAN, {5})

SpecHex == InitHex /\ [][NextHex]_vars

\* w is six lowercase hex digits and nothing else.
SixLowerHex(w) ==
    /\ Len(w) = 6
    /\ \A k \in 1..6 :
          IsDigit(w[k]) \/ \E j \in 1..Len(HexLower) : HexLower[j] = w[k]

\* One vtable.rgb call for each key in ascending order, with channel -1
\* and the whole word w.
Broadcast(w) ==
    [i \in 1..N_KEYS_EXTENDED |->
        Call("rgb", NONE, mode, 0 - 1, i - 1, w, NULL, 0)]

(***************************************************************************)
(* C15: the argument word of RGB on an active device with valid firmware   *)
(* makes the broadcast to all keys exactly when it is six lowercase hex    *)
(* digits and nothing else; any other word makes no vtable.rgb call with   *)
(* channel -1.                                                             *)
(***************************************************************************)
C15_HexBroadcast ==
    [][ (WordStep /\ command' = RGB /\ active /\ ~needs_fw_update) =>
            /\ SixLowerHex(word') <=> calls' = Broadcast(word')
            /\ ~SixLowerHex(word') =>
                  \A k \in DOMAIN calls' : calls'[k].chan # 0 - 1
      ]_vars


(***************************************************************************)
(* Lines that set the poll rate, on devices with different fastest rates   *)
(* and on one without FEAT_ADJRATE.                                        *)
(***************************************************************************)
w_8 == <<"8">>
w_4 == <<"4">>
w_05 == <<"0",".","5">>
w_025 == <<"0",".","2","5">>

\* The literals of the poll rate, from POLLRATE_8MS to POLLRATE_01MS.
PollLiterals == <<w_8, w_4, w_2, w_1, w_05, w_025, w_01>>

WordsPoll ==
    {Verb(POLLRATE), Verb(ACTIVE), Verb(IDLE), w_x, w_60}
    \cup { PollLiterals[k] : k \in 1..Len(PollLiterals) }

NextPoll ==
    \/ BeginLine
    \/ Word(WordsPoll, {FALSE})
    \/ EndLine({Time0})
    \/ Try
    \/ Reset

InitPoll == InitWith({Keyboard, Mouse, Legacy}, BOOLEAN, {FALSE}, BOOLEAN, {5})

SpecPoll == InitPoll /\ [][NextPoll]_vars

\* The word w is the literal of the rate r.
Literal(w, r) == r \in 0..(Len(PollLiterals) - 1) /\ w = PollLiterals[r + 1]

\* The word step is taken with the verb pollrate on a device that admits it.
PollWord ==
    /\ WordStep
    /\ command' = POLLRATE
    /\ active
    /\ ~needs_fw_update
    /\ "FEAT_ADJRATE" \in features

(***************************************************************************)
(* C16: vtable.pollrate gets pending only by a word of the verb pollrate   *)
(* on an active device with FEAT_ADJRATE and valid firmware, the word      *)
(* being one of the seven literals and its rate not above maxpollrate;     *)
(* such a word does make it pending, with that rate.  A literal whose rate *)
(* is above maxpollrate logs an error, makes no call pending, changes      *)
(* nothing of the device and leaves readcmd in the word loop.  Any other   *)
(* word of the verb does nothing.                                          *)
(***************************************************************************)
C16_Pollrate ==
    [][ /\ (hcall'.fn = "pollrate" /\ hcall.fn # "pollrate") =>
              /\ PollWord
              /\ pc' = "try"
              /\ \E r \in 0..hw.maxpollrate :
                    Literal(word', r) /\ hcall'.key = r
        /\ \A r \in 0..(Len(PollLiterals) - 1) :
              (PollWord /\ Literal(word', r)) =>
                  IF r > hw.maxpollrate
                  THEN /\ calls' = <<Call("ckb_err", NONE, NoMode, 0, 0,
                                          word', NULL, 0)>>
                       /\ pc' = "words"
                       /\ hcall' = NoCall
                       /\ retval' = retval
                       /\ UNCHANGED <<DeviceVars, currentmode, macros,
                                      forceupdate>>
                  ELSE /\ pc' = "try"
                       /\ hcall'.fn = "pollrate"
                       /\ hcall'.key = r
                       /\ calls' = <<>>
        /\ (PollWord /\ MatchIndex(word') = 0
            /\ ~\E r \in 0..(Len(PollLiterals) - 1) : Literal(word', r)) =>
              /\ calls' = <<>>
              /\ pc' = "words"
              /\ UNCHANGED <<DeviceVars, currentmode>>
        /\ \A k \in DOMAIN calls' : calls'[k].fn = "pollrate" =>
              (pc = "try" /\ hcall.fn = "pollrate" /\ Len(calls') = 1)
      ]_vars

\* pollrate 0.1 on a device whose fastest rate is 1 ms: the error is logged.
C16_Witness ==
    /\ pc = "words"
    /\ command = POLLRATE
    /\ word = w_01
    /\ hw.maxpollrate = POLLRATE_1MS
    /\ calls = <<Call("ckb_err", NONE, NoMode, 0, 0, w_01, NULL, 0)>>


\* readcmd is in the handler of hwload or hwsave: do_io, or the updatergb(1)
\* after it, is the call of the harness.
InHwIo == hcall.fn = "do_io" \/ (hcall.fn = "updatergb" /\ hcall.key = 1)

C17_Raised ==
    /\ (InHwIo /\ pc \in {"try", "reset"}) =>
          usbdelay = (IF delay < 10 THEN 10 ELSE delay)
    /\ (InHwIo /\ pc = "lost") => usbdelay = delay

C17_Left ==
    /\ (hcall.fn = "do_io" /\ hcall'.fn = "updatergb") =>
          (hcall'.key = 1 /\ calls' = <<[hcall EXCEPT !.ret = 0]>>)
    /\ (InHwIo /\ pc \in {"try", "reset"} /\ pc' = "words") =>
          usbdelay' = delay

(***************************************************************************)
(* C17: hwload and hwsave raise kb->usbdelay only for a while.  While      *)
(* do_io or the updatergb(1) after it is attempted or reset, usbdelay is   *)
(* the larger of the saved delay and 10; updatergb(1) gets pending only    *)
(* when do_io has returned 0; and when readcmd leaves the handler, back to *)
(* the word loop or by return 1, usbdelay is the saved delay again.        *)
(***************************************************************************)
C17_TemporaryDelay ==
    /\ []C17_Raised
    /\ [][C17_Left]_vars


(***************************************************************************)
(* Lines read at clock readings that are seconds apart, so that the        *)
(* difference to last_rgb goes beyond LONG_MAX nanoseconds.                *)
(***************************************************************************)
TimesWide ==
    { Timespec(s, n) : s \in 0..(MaxSec + 3), n \in {0, 1, NSEC_PER_SEC - 1} }

NextWide ==
    \/ BeginLine
    \/ Word({Verb(RGB), Verb(MODE), w_hex}, {FALSE})
    \/ EndLine(TimesWide)
    \/ Try
    \/ Reset

SpecWide == InitRGB /\ [][NextWide]_vars

\* ds * 10^9 + dn is above LONG_MAX, for ds >= 0 and dn within a second
\* either way (computed without leaving the range of long).
Exceeds(ds, dn) ==
    IF ds >= 4 THEN TRUE
    ELSE IF ds = 3 THEN dn + NSEC_PER_SEC > LONG_MAX - 2 * NSEC_PER_SEC
    ELSE IF ds = 2 THEN dn > LONG_MAX - 2 * NSEC_PER_SEC
    ELSE FALSE

\* ds * 10^9 + dn when it is not above LONG_MAX.
Exact(ds, dn) ==
    IF ds = 3 THEN 2 * NSEC_PER_SEC + (dn + NSEC_PER_SEC)
    ELSE ds * NSEC_PER_SEC + dn

(***************************************************************************)
(* C18: timespec_diff_ns never wraps.  For the clock reading and the       *)
(* last_rgb of every reachable state, timespec_diff_ns(clock, last_rgb) is *)
(* the exact difference in nanoseconds when that is not above LONG_MAX and *)
(* LONG_MAX when it is, whatever the sign of the difference of the tv_nsec *)
(* fields; so a difference above LONG_MAX is never a value in              *)
(* (0, HERTZ_LIM) for the rate limiter.                                    *)
(***************************************************************************)
C18_NoWrap ==
    LET ds == clock.tv_sec - last_rgb.tv_sec
        dn == clock.tv_nsec - last_rgb.tv_nsec
    IN  ds >= 0 =>
          /\ timespec_diff_ns(clock, last_rgb) =
                (IF Exceeds(ds, dn) THEN {LONG_MAX} ELSE {Exact(ds, dn)})
          /\ Exceeds(ds, dn) =>
                \A d \in timespec_diff_ns(clock, last_rgb) :
                    ~(d > 0 /\ d < HERTZ_LIM)


\* The word step dispatched the verb of the line: it made a call, made a
\* call of the harness pending or started a mode switch.
Dispatched ==
    /\ WordStep
    /\ \/ calls' # <<>>
       \/ pc' = "try"
       \/ pc' = SwitchSteps[1]

(***************************************************************************)
(* C19: an action verb (switch, hwload, hwsave, active, idle, erase,       *)
(* eraseprofile) is dispatched once for each time its word is on the line: *)
(* every word step that dispatches an action verb is the step of the word  *)
(* of that verb, and a word that is no verb dispatches no action verb.     *)
(***************************************************************************)
C19_OncePerVerb ==
    [][ (Dispatched /\ IsActionVerb(command')) => word' = Verb(command') ]_vars


(***************************************************************************)
(* Termination.  A line is finite: strtok_r gives NULL after its last      *)
(* word, so the end of the line is not put off for ever.  readcmd runs:    *)
(* every step other than the choice of the next word is taken once it can  *)
(* be.  The transport is fair: a harnessed call does not fail for ever     *)
(* with every reset succeeding.                                            *)
(***************************************************************************)
WordsLive ==
    { Verb(c) : c \in {ACTIVE, IDLE, HWLOAD, MODE, SWITCH, RGB} }
    \cup {w_2, w_x, w_keys}

NextLive ==
    \/ BeginLine
    \/ Word(WordsLive, {FALSE})
    \/ EndLine({Time0})
    \/ Try
    \/ Reset
    \/ SwLock
    \/ SwClear
    \/ SwSet
    \/ SwUnlock
    \/ SwIndex

\* An attempt that returns 0.
TryOk == Try /\ calls'[1].ret = 0

\* A reset that fails.
ResetFail == Reset /\ calls'[1].ret # 0

InitLive == InitWith({Keyboard}, {FALSE}, {FALSE}, BOOLEAN, {5})

SpecLive ==
    /\ InitLive
    /\ [][NextLive]_vars
    /\ SF_vars(EndLine({Time0}))
    /\ WF_vars(Try)
    /\ WF_vars(Reset)
    /\ WF_vars(SwLock \/ SwClear \/ SwSet \/ SwUnlock \/ SwIndex)
    /\ SF_vars(TryOk \/ ResetFail)

\* readcmd has returned (or was not called).
Returned == pc \in {"idle", "lost"}

\* From a pending call, an attempt that fails and a reset that succeeds
\* bring readcmd back to the same pending call on the same device.
C20_Loop ==
    pc = "try" =>
        LET S1 == TryResult(
                     vt_harnessed([State EXCEPT !.calls = <<[hcall EXCEPT !.ret = 1]>>],
                                  hcall, 1, FALSE), 1)
            S2 == ResetResult(S1, 0)
        IN  /\ S1.pc = "reset"
            /\ S2.pc = "try"
            /\ S2.hcall = hcall
            /\ Dev(S2) = Dev(State)

(***************************************************************************)
(* C20: termination.  With a finite line and a fair transport, readcmd     *)
(* returns whenever it was called.  The fairness is needed: at every       *)
(* pending call, a failed attempt followed by a reset that succeeds leaves *)
(* readcmd at the same pending call with the device as it was, and nothing *)
(* counts the attempts.                                                    *)
(***************************************************************************)
C20_Terminates ==
    /\ []C20_Loop
    /\ (~Returned ~> Returned)

\* readcmd has returned 0 from a line whose flush went through.
C20_Witness ==
    /\ pc = "idle"
    /\ retval = 0
    /\ active
    /\ calls = <<Call("updatedpi", NONE, NoMode, 0, 0, NULL, NULL, 0)>>

=============================================================================
